---------------------------- MODULE Spec2Model ----------------------------
(***************************************************************************)
(* Model of the build-output parser and warning-diff session of devtools:  *)
(* ChoreManager._make, _make_flash, check_warnings (chore_manager.py),     *)
(* WarningTracker (warning_tracker.py) and ProgressBar (progress_bar.py).  *)
(*                                                                         *)
(* A line of child output is a sequence of tokens.  A token is either one  *)
(* character (":", " ", a digit, ...) or a whole word that never occurs    *)
(* split ("Size of flash image", "/tmp/cc", ...).  Python's `m in line` is *)
(* contiguous-subsequence search over tokens; every line ends in "\n" as   *)
(* readline() returns it, and readline() == '' is end-of-stream.           *)
(***************************************************************************)
EXTENDS Integers, Sequences, FiniteSets, TLC

VARIABLES
    cpc,          \* position of the caller of _make (check_rom / _make_flash / check_warnings)
    pc,           \* position inside _make: "idle", "select", "for", "returned", "raised"
    outScript,    \* the lines the child emits on stdout in this pass, in order
    errScript,    \* the lines the child emits on stderr in this pass, in order
    outRead,      \* number of stdout lines readline() has returned
    errRead,      \* number of stderr lines readline() has returned
    selKeys,      \* keys returned by sel.select() the for loop has not visited yet
    ok,           \* the loop flag of _make
    results,      \* results dict of _make: status, rerun, size
    logs,         \* categorized_logs: linker, error, warning
    compiler_log, \* raw diagnostic log
    context,      \* context buffer
    pb,           \* ProgressBar: max (_max_value), cur (current_value)
    ret,          \* value the last _make call returned; NoRet while a call runs
    childExit,    \* how the child of the pass ended: "running", "zero", "nonzero"
    flashRet,     \* value _make_flash returned
    skipClean,    \* skip_clean argument of the running pass
    cleanCount,   \* number of 'make clean' runs so far
    passNo,       \* number of passes of _make started so far
    wt,           \* self._warning_tracker: present, old_db, new_db, active
    head,         \* checked-out ref: "orig" or "base"
    trace,        \* operations issued by check_warnings, in order
    cwResults,    \* local `results` of check_warnings (candidate outcome)
    report,       \* what get_diff printed: removed, added and the two totals
    git_was_dirty \* self._git_was_dirty: a fingerprint commit was made at start

vars == <<cpc, pc, outScript, errScript, outRead, errRead, selKeys, ok, results,
          logs, compiler_log, context, pb, ret, childExit, skipClean, cleanCount,
          passNo, wt, head, trace, cwResults, report, flashRet, git_was_dirty>>

--------------------------------------------------------------------------
(* Bounds *)

MaxLines == 3       \* lines the child emits in one pass, both streams together
MaxTargets == 1     \* largest dry-run target estimate
MaxPasses == 3      \* passes one _make_flash call may take in the model
MaxMultiLines == 2  \* lines per pass where several passes follow one another
MaxTemplateLen == 7 \* characters of a warning text given to add, holes included
MaxCalls == 6       \* calls made on a WarningTracker driven on its own
MaxDiagLines == 3   \* stderr lines of the pass that exercises the stderr if-chain

--------------------------------------------------------------------------
(* Strings *)

Digits == {"0", "1", "2", "3", "4", "5", "6", "7", "8", "9"}

DigitVal(c) ==
    CASE c = "0" -> 0 [] c = "1" -> 1 [] c = "2" -> 2 [] c = "3" -> 3
      [] c = "4" -> 4 [] c = "5" -> 5 [] c = "6" -> 6 [] c = "7" -> 7
      [] c = "8" -> 8 [] c = "9" -> 9

\* `m in s` for strings: m occurs in s as a contiguous run
Contains(s, m) ==
    \E i \in 0..(Len(s) - Len(m)) : \A j \in 1..Len(m) : s[i + j] = m[j]

\* int(d) for a string of decimal digits
RECURSIVE IntOf(_)
IntOf(d) ==
    IF d = <<>> THEN 0
    ELSE 10 * IntOf(SubSeq(d, 1, Len(d) - 1)) + DigitVal(d[Len(d)])

\* length of the maximal run of digits of s starting at position i
RECURSIVE DigitRun(_, _)
DigitRun(s, i) ==
    IF i <= Len(s) /\ s[i] \in Digits THEN 1 + DigitRun(s, i + 1) ELSE 0

\* findall(r'\d+', s), scanning from position i
RECURSIVE FindAllFrom(_, _)
FindAllFrom(s, i) ==
    IF i > Len(s) THEN <<>>
    ELSE LET n == DigitRun(s, i)
         IN IF n = 0 THEN FindAllFrom(s, i + 1)
            ELSE <<SubSeq(s, i, i + n - 1)>> \o FindAllFrom(s, i + n)

FindAll(s) == FindAllFrom(s, 1)

\* markers of the child's stdout
SIZE_MARKER == <<"Size of flash image">>
RERUN_MARKER == <<"Please run make again!">>
TICK_MARKER == <<"<builtin>", ":", " ", "update target">>

\* markers of the child's stderr
TMP_MARKER == <<"/tmp/cc">>
LD_MARKER == <<"/bin/ld">>
WARNING_WORD == <<"warning", ":">>
ERROR_MARKER == <<":", " ", "error", ":">>
UNDEF_MARKER == <<":", " ", "undefined reference">>
WARNING_MARKER == <<":", " ", "warning", ":">>


--------------------------------------------------------------------------
(* Sample lines of child output *)

\* scenario A of the specification
SizeLineA ==
    <<"Size of flash image", ":", " ", "1", "2", "3", "4", "5", "6", " ", "bytes", "\n">>
\* digits before the marker, a second digit run, and the rerun phrase as well
SizeLineTwoRuns ==
    <<"[", "4", "2", "]", " ", "Size of flash image", " ", "9", " ",
      "Please run make again!", "\n">>
SizeLineNoDigits == <<"Size of flash image", ":", " ", "unknown", "\n">>
RerunLine == <<"Please run make again!", "\n">>
TickLine == <<"<builtin>", ":", " ", "update target", " ", "a.o", "\n">>

NoiseLine == <<"/tmp/cc", "x.o", ":", " ", "warning", ":", " ", "w", "\n">>
LinkerLine == <<"/bin/ld", ":", " ", "error", ":", " ", "L", "\n">>
ErrorLine == <<"file.c", ":", "4", ":", " ", "error", ":", " ", "X", "\n">>
WarningLine ==
    <<"a.c", ":", "1", "0", ":", " ", "warning", ":", " ", "unused variable x", "\n">>
ContextLine == <<"note", ":", " ", "in expansion", "\n">>

StdoutLines == {SizeLineA, SizeLineTwoRuns, SizeLineNoDigits, RerunLine, TickLine}
StderrLines == {NoiseLine, LinkerLine, ErrorLine, WarningLine, ContextLine}

SeqsUpTo(S, n) == UNION {[1..k -> S] : k \in 0..n}

\* the outputs a child may produce in one pass: at most n lines in all
Scripts(n) ==
    {p \in SeqsUpTo(StdoutLines, n) \X SeqsUpTo(StderrLines, n) :
        Len(p[1]) + Len(p[2]) <= n}

\* the smaller choice of outputs where several passes follow one another
MultiStdoutLines == {SizeLineA, SizeLineNoDigits, RerunLine}
MultiStderrLines == {ErrorLine, WarningLine}

MultiScripts(n) ==
    {p \in SeqsUpTo(MultiStdoutLines, n) \X SeqsUpTo(MultiStderrLines, n) :
        Len(p[1]) + Len(p[2]) <= n}

\* lines in which several of the stderr markers occur together
WarnErrorLine ==
    <<"a.c", ":", "7", ":", " ", "warning", ":", " ", "x", ":", " ", "error", ":", " ", "y", "\n">>
LdWarningLine == <<"/bin/ld", ":", " ", "warning", ":", " ", "w", "\n">>
UndefLine == <<"b.o", ":", " ", "undefined reference", " ", "f", "\n">>

DiagStderrLines == StderrLines \cup {WarnErrorLine, LdWarningLine, UndefLine}

\* outputs that exercise the stderr if-chain: at most one tick on stdout
DiagScripts(n) ==
    {sc \in SeqsUpTo({TickLine}, 1) \X SeqsUpTo(DiagStderrLines, n) :
        Len(sc[1]) + Len(sc[2]) <= n}

\* the dry run finds no target (estimate failed) or MaxTargets of them
TargetEstimates == {0, MaxTargets}

--------------------------------------------------------------------------
(* ProgressBar *)

NewPb(targets) == [max |-> targets, cur |-> 0]

\* a slip: the upper half of the range test is missing
PbUpdateNoUpperTest(p, v) ==
    IF v < 1 THEN p ELSE [p EXCEPT !.cur = v]

PbUpdate(p, v) ==
    IF v < 1 \/ v > p.max THEN p ELSE [p EXCEPT !.cur = v]

\* what update(v) divides by: max_value for the ratio (line 21) and the ratio
\* for the eta (line 26), which is zero exactly when v is; nothing when the
\* range test returns first
PbDivisors(p, v) ==
    IF v < 1 \/ v > p.max THEN {} ELSE {p.max, v}

PbUpdateRelative(p, delta) == PbUpdate(p, p.cur + delta)

PbFinalize(p) == PbUpdate(p, p.max)

--------------------------------------------------------------------------
(* WarningTracker *)

EmptyDb == [k \in {} |-> 0]

NoTracker == [present |-> FALSE, old_db |-> EmptyDb, new_db |-> EmptyDb, active |-> "None"]
NewTracker == [present |-> TRUE, old_db |-> EmptyDb, new_db |-> EmptyDb, active |-> "None"]

\* set_db raises NameError for any other name
SetDbRaises(dest) == dest \notin {"old", "new"}

\* a slip: an unknown name selects 'new' before the error is raised
SetDbFallsBackToNew(w, dest) ==
    IF dest = "old" THEN [w EXCEPT !.active = "old"] ELSE [w EXCEPT !.active = "new"]

SetDb(w, dest) ==
    IF dest = "old" THEN [w EXCEPT !.active = "old"]
    ELSE IF dest = "new" THEN [w EXCEPT !.active = "new"]
    ELSE w

\* one pass of sub(r':[0-9]+:', ':#:', s), scanning from position i
RECURSIVE SubFrom(_, _)
SubFrom(s, i) ==
    IF i > Len(s) THEN <<>>
    ELSE LET n == DigitRun(s, i + 1)
         IN IF s[i] = ":" /\ n > 0 /\ i + n + 1 <= Len(s) /\ s[i + n + 1] = ":"
            THEN <<":", "#", ":">> \o SubFrom(s, i + n + 2)
            ELSE <<s[i]>> \o SubFrom(s, i + 1)

SubLineNo(s) == SubFrom(s, 1)

\* a slip: one substitution pass instead of two
NormalizeOnce(warning) == SubLineNo(warning)

Normalize(warning) == SubLineNo(SubLineNo(warning))

\* a slip: a key already present is set back to 1
DbAddResets(db, key) ==
    [k \in DOMAIN db \cup {key} |-> IF k = key THEN 1 ELSE db[k]]

DbAdd(db, key) ==
    IF key \in DOMAIN db THEN [db EXCEPT ![key] = @ + 1]
    ELSE [k \in DOMAIN db \cup {key} |-> IF k = key THEN 1 ELSE db[k]]

\* `warning in db` with db None raises TypeError
AddRaises(w) == w.active = "None"

Add(w, warning) ==
    IF w.active = "old" THEN [w EXCEPT !.old_db = DbAdd(@, Normalize(warning))]
    ELSE IF w.active = "new" THEN [w EXCEPT !.new_db = DbAdd(@, Normalize(warning))]
    ELSE w

CountDiff(old, new, k) == IF k \in DOMAIN new THEN new[k] - old[k] ELSE 0 - old[k]

\* a slip: a difference of sets, every key of 'old' whose count changed is
\* removed with its whole count
RemovedDbWholesale(old, new) ==
    [k \in {x \in DOMAIN old : CountDiff(old, new, x) # 0} |-> old[k]]

\* a slip: a key that vanished from 'new' is not reported as removed
RemovedDbCommonKeysOnly(old, new) ==
    [k \in {x \in DOMAIN old \cap DOMAIN new : CountDiff(old, new, x) < 0} |->
        0 - CountDiff(old, new, k)]

RemovedDb(old, new) ==
    [k \in {x \in DOMAIN old : CountDiff(old, new, x) < 0} |-> 0 - CountDiff(old, new, k)]

\* a slip: a count that rose is not reported, only keys new to 'new'
AddedDbNewKeysOnly(old, new) ==
    [k \in DOMAIN new \ DOMAIN old |-> new[k]]

\* a slip: `>= 0` instead of `> 0`
AddedDbNonNegative(old, new) ==
    [k \in {x \in DOMAIN old : CountDiff(old, new, x) >= 0} \cup (DOMAIN new \ DOMAIN old) |->
        IF k \in DOMAIN old THEN CountDiff(old, new, k) ELSE new[k]]

AddedDb(old, new) ==
    [k \in {x \in DOMAIN old : CountDiff(old, new, x) > 0} \cup (DOMAIN new \ DOMAIN old) |->
        IF k \in DOMAIN old THEN CountDiff(old, new, k) ELSE new[k]]

RECURSIVE SumValues(_)
SumValues(db) ==
    IF DOMAIN db = {} THEN 0
    ELSE LET k == CHOOSE x \in DOMAIN db : TRUE
         IN db[k] + SumValues([x \in DOMAIN db \ {k} |-> db[x]])

NoReport ==
    [printed |-> FALSE, removed |-> EmptyDb, added |-> EmptyDb,
     removed_total |-> 0, added_total |-> 0]

GetDiff(w) ==
    [printed |-> TRUE,
     removed |-> RemovedDb(w.old_db, w.new_db),
     added |-> AddedDb(w.old_db, w.new_db),
     removed_total |-> SumValues(RemovedDb(w.old_db, w.new_db)),
     added_total |-> SumValues(AddedDb(w.old_db, w.new_db))]


--------------------------------------------------------------------------
(* ChoreManager._make: the per-line handlers *)

FreshResults == [status |-> "FAIL", rerun |-> FALSE, size |-> 0]
FreshLogs == [linker |-> <<>>, error |-> <<>>, warning |-> <<>>]
NoRet == [status |-> "None", rerun |-> FALSE, size |-> 0, path |-> "None", logs |-> FreshLogs]

\* a slip in the index: the last digit run instead of the first
ParseSizeLastRun(line) == IntOf(FindAll(line)[Len(FindAll(line))])

\* int(findall(r'\d+', line)[0])
ParseSize(line) == IntOf(Head(FindAll(line)))

\* findall(...)[0] on an empty list raises IndexError
StdoutRaises(line) == Contains(line, SIZE_MARKER) /\ FindAll(line) = <<>>

\* a slip: the rerun branch starts the outcome over
OnStdoutResultsRerunResets(res, line) ==
    IF Contains(line, SIZE_MARKER)
    THEN IF FindAll(line) = <<>>
         THEN [res EXCEPT !.status = "PASS"]
         ELSE [res EXCEPT !.status = "PASS", !.size = IntOf(Head(FindAll(line)))]
    ELSE IF Contains(line, RERUN_MARKER)
    THEN [status |-> "FAIL", rerun |-> TRUE, size |-> 0]
    ELSE res

\* a slip: the rerun branch marks the pass as failed
OnStdoutResultsRerunFails(res, line) ==
    IF Contains(line, SIZE_MARKER)
    THEN IF FindAll(line) = <<>>
         THEN [res EXCEPT !.status = "PASS"]
         ELSE [res EXCEPT !.status = "PASS", !.size = IntOf(Head(FindAll(line)))]
    ELSE IF Contains(line, RERUN_MARKER)
    THEN [res EXCEPT !.status = "FAIL", !.rerun = TRUE]
    ELSE res

\* a slip: the rerun phrase is tested before the success marker
OnStdoutResultsRerunFirst(res, line) ==
    IF Contains(line, RERUN_MARKER)
    THEN [res EXCEPT !.rerun = TRUE]
    ELSE IF Contains(line, SIZE_MARKER)
    THEN IF FindAll(line) = <<>>
         THEN [res EXCEPT !.status = "PASS"]
         ELSE [res EXCEPT !.status = "PASS", !.size = IntOf(Head(FindAll(line)))]
    ELSE res

\* the stdout branch of the loop body, applied to results; on IndexError the
\* assignment to status has already happened and the one to size has not
OnStdoutResults(res, line) ==
    IF Contains(line, SIZE_MARKER)
    THEN IF FindAll(line) = <<>>
         THEN [res EXCEPT !.status = "PASS"]
         ELSE [res EXCEPT !.status = "PASS", !.size = ParseSize(line)]
    ELSE IF Contains(line, RERUN_MARKER)
    THEN [res EXCEPT !.rerun = TRUE]
    ELSE res

\* the stdout branch of the loop body, applied to the progress bar
OnStdoutPb(p, line) ==
    IF ~Contains(line, SIZE_MARKER) /\ ~Contains(line, RERUN_MARKER)
       /\ Contains(line, TICK_MARKER)
    THEN PbUpdateRelative(p, 1)
    ELSE p

\* a slip: the error branch is tested before the linker branch
ClassifyErrorFirst(line) ==
    IF Contains(line, TMP_MARKER) THEN "noise"
    ELSE IF Contains(line, ERROR_MARKER) \/ Contains(line, UNDEF_MARKER) THEN "error"
    ELSE IF Contains(line, LD_MARKER) /\ ~Contains(line, WARNING_WORD) THEN "linker"
    ELSE IF Contains(line, WARNING_MARKER) THEN "warning"
    ELSE "context"

\* a slip: the linker branch forgets `'warning:' not in line`
ClassifyLinkerFirst(line) ==
    IF Contains(line, TMP_MARKER) THEN "noise"
    ELSE IF Contains(line, LD_MARKER) THEN "linker"
    ELSE IF Contains(line, ERROR_MARKER) \/ Contains(line, UNDEF_MARKER) THEN "error"
    ELSE IF Contains(line, WARNING_MARKER) THEN "warning"
    ELSE "context"

\* which branch of the stderr if-chain a line takes
Classify(line) ==
    IF Contains(line, TMP_MARKER) THEN "noise"
    ELSE IF Contains(line, LD_MARKER) /\ ~Contains(line, WARNING_WORD) THEN "linker"
    ELSE IF Contains(line, ERROR_MARKER) \/ Contains(line, UNDEF_MARKER) THEN "error"
    ELSE IF Contains(line, WARNING_MARKER) THEN "warning"
    ELSE "context"

\* a slip: a new entry is put in front of the log instead of behind it
OnStderrLogsPrepends(lg, ctx, line) ==
    CASE Classify(line) = "linker" -> [lg EXCEPT !.linker = ctx \o line \o @]
      [] Classify(line) = "error" -> [lg EXCEPT !.error = ctx \o line \o @]
      [] OTHER -> lg

\* a slip: the context is not put in front of the diagnostic
OnStderrLogsNoContext(lg, ctx, line) ==
    CASE Classify(line) = "linker" -> [lg EXCEPT !.linker = @ \o line]
      [] Classify(line) = "error" -> [lg EXCEPT !.error = @ \o line]
      [] OTHER -> lg

OnStderrLogs(lg, ctx, line) ==
    CASE Classify(line) = "linker" -> [lg EXCEPT !.linker = @ \o ctx \o line]
      [] Classify(line) = "error" -> [lg EXCEPT !.error = @ \o ctx \o line]
      [] OTHER -> lg

\* a slip: a noise line empties the context buffer
OnStderrContextNoiseResets(ctx, line) ==
    CASE Classify(line) = "context" -> ctx \o line
      [] OTHER -> <<>>

OnStderrContext(ctx, line) ==
    CASE Classify(line) = "noise" -> ctx
      [] Classify(line) = "context" -> ctx \o line
      [] OTHER -> <<>>

OnStderrTracker(w, ctx, line) ==
    IF Classify(line) = "warning" /\ w.present THEN Add(w, ctx \o line) ELSE w

StderrRaises(w, line) == Classify(line) = "warning" /\ w.present /\ AddRaises(w)

\* Popen.returncode stays None: _make never calls poll() or wait()
PopenReturncode == "None"

\* what select() can return: the streams that are readable (a line has
\* arrived, or the child closed the stream), at least one, in either order
ReadyLists == {<<"stdout">>, <<"stderr">>, <<"stdout", "stderr">>, <<"stderr", "stdout">>}

\* the value _make returns
ReturnValue(res, lg) ==
    [status |-> res.status, rerun |-> res.rerun, size |-> res.size,
     path |-> "None", logs |-> lg]

--------------------------------------------------------------------------
(* ChoreManager._make: the steps *)

callerVars == <<wt, head, trace, cwResults, report, flashRet, git_was_dirty>>

\* a slip: a pass without the clean step goes on from the outcome before it
MakeStartKeepsOutcome(skip, scripts) ==
    /\ results' = IF skip THEN [results EXCEPT !.rerun = FALSE] ELSE FreshResults
    /\ skipClean' = skip
    /\ cleanCount' = IF skip THEN cleanCount ELSE cleanCount + 1
    /\ passNo' = passNo + 1
    /\ \E t \in TargetEstimates : pb' = NewPb(t)
    /\ \E p \in scripts : outScript' = p[1] /\ errScript' = p[2]
    /\ outRead' = 0
    /\ errRead' = 0
    /\ selKeys' = <<>>
    /\ compiler_log' = <<>>
    /\ logs' = FreshLogs
    /\ context' = <<>>
    /\ ok' = TRUE
    /\ pc' = "select"
    /\ ret' = NoRet
    /\ childExit' = "running"

\* lines 551-582: fresh results, optional clean, dry run, Popen, fresh logs
MakeStart(skip, scripts) ==
    /\ results' = FreshResults
    /\ skipClean' = skip
    /\ cleanCount' = IF skip THEN cleanCount ELSE cleanCount + 1
    /\ passNo' = passNo + 1
    /\ \E t \in TargetEstimates : pb' = NewPb(t)
    /\ \E p \in scripts : outScript' = p[1] /\ errScript' = p[2]
    /\ outRead' = 0
    /\ errRead' = 0
    /\ selKeys' = <<>>
    /\ compiler_log' = <<>>
    /\ logs' = FreshLogs
    /\ context' = <<>>
    /\ ok' = TRUE
    /\ pc' = "select"
    /\ ret' = NoRet
    /\ childExit' = "running"

\* the rest of the for loop after one line: next key, or back to `while ok`
NextKey ==
    /\ selKeys' = Tail(selKeys)
    /\ pc' = IF Tail(selKeys) = <<>> THEN "select" ELSE "for"

\* line 584: sel.select()
Select ==
    /\ pc = "select"
    /\ ok
    /\ \E keys \in ReadyLists : selKeys' = keys
    /\ pc' = "for"
    /\ UNCHANGED <<cpc, outScript, errScript, outRead, errRead, ok, results, logs,
                   compiler_log, context, pb, ret, childExit, skipClean, cleanCount,
                   passNo>>
    /\ UNCHANGED callerVars

\* lines 585-588: readline() returns '' on the stream at the head of the keys
ReadEof ==
    /\ pc = "for"
    /\ \/ Head(selKeys) = "stdout" /\ outRead = Len(outScript)
       \/ Head(selKeys) = "stderr" /\ errRead = Len(errScript)
    /\ ok' = FALSE
    /\ selKeys' = <<>>
    /\ pc' = "select"
    /\ UNCHANGED <<cpc, outScript, errScript, outRead, errRead, results, logs,
                   compiler_log, context, pb, ret, childExit, skipClean, cleanCount,
                   passNo>>
    /\ UNCHANGED callerVars

\* lines 589-596: a line of stdout
ReadStdout ==
    /\ pc = "for"
    /\ Head(selKeys) = "stdout"
    /\ outRead < Len(outScript)
    /\ LET line == outScript[outRead + 1]
       IN /\ outRead' = outRead + 1
          /\ results' = OnStdoutResults(results, line)
          /\ IF StdoutRaises(line)
             THEN /\ pc' = "raised"
                  /\ cpc' = "raised"
                  /\ UNCHANGED <<selKeys, pb>>
             ELSE /\ pb' = OnStdoutPb(pb, line)
                  /\ NextKey
                  /\ UNCHANGED cpc
    /\ UNCHANGED <<outScript, errScript, errRead, ok, logs, compiler_log, context,
                   ret, childExit, skipClean, cleanCount, passNo>>
    /\ UNCHANGED callerVars

\* lines 597-618: a line of stderr
ReadStderr ==
    /\ pc = "for"
    /\ Head(selKeys) = "stderr"
    /\ errRead < Len(errScript)
    /\ LET line == errScript[errRead + 1]
       IN /\ errRead' = errRead + 1
          /\ compiler_log' = compiler_log \o line
          /\ IF StderrRaises(wt, line)
             THEN /\ pc' = "raised"
                  /\ cpc' = "raised"
                  /\ UNCHANGED <<selKeys, logs, context, wt>>
             ELSE /\ logs' = OnStderrLogs(logs, context, line)
                  /\ wt' = OnStderrTracker(wt, context, line)
                  /\ context' = OnStderrContext(context, line)
                  /\ NextKey
                  /\ UNCHANGED cpc
    /\ UNCHANGED <<outScript, errScript, outRead, ok, results, pb, ret, childExit,
                   skipClean, cleanCount, passNo>>
    /\ UNCHANGED <<head, trace, cwResults, report, flashRet, git_was_dirty>>

\* lines 620-631: the loop has ended; finalize on returncode 0; return
MakeReturn ==
    /\ pc = "select"
    /\ ~ok
    /\ pb' = IF PopenReturncode = "0" THEN PbFinalize(pb) ELSE pb
    /\ ret' = ReturnValue(results, logs)
    /\ \E rc \in {"zero", "nonzero"} : childExit' = rc
    /\ pc' = "returned"
    /\ UNCHANGED <<cpc, outScript, errScript, outRead, errRead, selKeys, ok, results,
                   logs, compiler_log, context, skipClean, cleanCount, passNo>>
    /\ UNCHANGED callerVars

--------------------------------------------------------------------------
(* One pass of _make on its own: called by _check_rom with no tracker, or  *)
(* by check_warnings for the candidate build, after set_db('new')          *)

InitCommon ==
    /\ pc = "idle"
    /\ outScript = <<>>
    /\ errScript = <<>>
    /\ outRead = 0
    /\ errRead = 0
    /\ selKeys = <<>>
    /\ ok = FALSE
    /\ results = FreshResults
    /\ logs = FreshLogs
    /\ compiler_log = <<>>
    /\ context = <<>>
    /\ pb = NewPb(0)
    /\ ret = NoRet
    /\ childExit = "running"
    /\ flashRet = NoRet
    /\ skipClean = FALSE
    /\ cleanCount = 0
    /\ passNo = 0
    /\ head = "orig"
    /\ trace = <<>>
    /\ cwResults = NoRet
    /\ report = NoReport
    /\ git_was_dirty = FALSE

Init ==
    /\ InitCommon
    /\ cpc = "call_make"
    /\ wt \in {NoTracker, SetDb(NewTracker, "new")}

CallMake ==
    /\ cpc = "call_make"
    /\ MakeStart(FALSE, Scripts(MaxLines))
    /\ cpc' = "in_make"
    /\ UNCHANGED callerVars

Next == CallMake \/ Select \/ ReadEof \/ ReadStdout \/ ReadStderr \/ MakeReturn

Spec == Init /\ [][Next]_vars


--------------------------------------------------------------------------
(* ChoreManager._make_flash, as execute_builds calls it: no tracker *)

\* a slip: go on while the build has not passed
FlashAgainWhileFailing(r) == r.status # "PASS"

\* line 643: while results['rerun']
FlashAgain(r) == r.rerun

\* line 642: the first pass, with the clean step
FlashFirst ==
    /\ cpc = "flash_start"
    /\ MakeStart(FALSE, MultiScripts(MaxMultiLines))
    /\ cpc' = "flash_loop"
    /\ UNCHANGED callerVars

\* lines 643-644: a further pass, skip_clean=True
FlashRerun ==
    /\ cpc = "flash_loop"
    /\ pc = "returned"
    /\ FlashAgain(ret)
    /\ passNo < MaxPasses
    /\ MakeStart(TRUE, MultiScripts(MaxMultiLines))
    /\ UNCHANGED cpc
    /\ UNCHANGED callerVars

\* lines 648-653: the loop is over; path is set when a *.rps file exists
FlashReturn ==
    /\ cpc = "flash_loop"
    /\ pc = "returned"
    /\ ~FlashAgain(ret)
    /\ \E path \in {"None", "rps"} : flashRet' = [ret EXCEPT !.path = path]
    /\ cpc' = "flash_done"
    /\ pc' = "idle"
    /\ UNCHANGED <<outScript, errScript, outRead, errRead, selKeys, ok, results, logs,
                   compiler_log, context, pb, ret, childExit, skipClean, cleanCount,
                   passNo>>
    /\ UNCHANGED <<wt, head, trace, cwResults, report, git_was_dirty>>

InitFlash ==
    /\ InitCommon
    /\ cpc = "flash_start"
    /\ wt = NoTracker

NextFlash ==
    \/ FlashFirst \/ FlashRerun \/ FlashReturn
    \/ Select \/ ReadEof \/ ReadStdout \/ ReadStderr \/ MakeReturn

SpecFlash == InitFlash /\ [][NextFlash]_vars

--------------------------------------------------------------------------
(* ChoreManager.check_warnings, as parse_args calls it: a new tracker, the *)
(* merge base known, the candidate ref checked out                         *)

\* a slip: no guard at all
GuardAlwaysPasses(r) == TRUE

\* line 530: results['status'] == 'PASS' or results['rerun']
GuardPasses(r) == r.status = "PASS" \/ r.rerun

\* a slip: the candidate build starts before any mapping is selected
CwStartNoSetDb ==
    /\ cpc = "cw_start"
    /\ wt' = wt
    /\ trace' = trace \o <<"make">>
    /\ MakeStart(FALSE, MultiScripts(MaxMultiLines))
    /\ cpc' = "cw_candidate"
    /\ UNCHANGED <<head, cwResults, report, flashRet, git_was_dirty>>

\* lines 527-528: set_db('new'), then the candidate build
CwStart ==
    /\ cpc = "cw_start"
    /\ wt' = SetDb(wt, "new")
    /\ trace' = trace \o <<"set_db new", "make">>
    /\ MakeStart(FALSE, MultiScripts(MaxMultiLines))
    /\ cpc' = "cw_candidate"
    /\ UNCHANGED <<head, cwResults, report, flashRet, git_was_dirty>>

\* lines 528-533: the candidate build has returned, the generated files are
\* restored, and the guard fails
CwAbort ==
    /\ cpc = "cw_candidate"
    /\ pc = "returned"
    /\ cwResults' = ret
    /\ ~GuardPasses(ret)
    /\ trace' = trace \o <<"restore">>
    /\ cpc' = "cw_aborted"
    /\ pc' = "idle"
    /\ UNCHANGED <<outScript, errScript, outRead, errRead, selKeys, ok, results, logs,
                   compiler_log, context, pb, ret, childExit, skipClean, cleanCount,
                   passNo>>
    /\ UNCHANGED <<wt, head, report, flashRet, git_was_dirty>>

\* a slip: the base build starts with 'new' still selected
CwBaseKeepsNew ==
    /\ cpc = "cw_candidate"
    /\ pc = "returned"
    /\ cwResults' = ret
    /\ GuardPasses(ret)
    /\ head' = "base"
    /\ wt' = wt
    /\ trace' = trace \o <<"restore", "checkout base", "make">>
    /\ MakeStart(FALSE, MultiScripts(MaxMultiLines))
    /\ cpc' = "cw_base"
    /\ UNCHANGED <<report, flashRet, git_was_dirty>>

\* lines 528-536: the candidate build has returned, the generated files are
\* restored, the guard passes: checkout of the merge base, set_db('old'), base build
CwBase ==
    /\ cpc = "cw_candidate"
    /\ pc = "returned"
    /\ cwResults' = ret
    /\ GuardPasses(ret)
    /\ head' = "base"
    /\ wt' = SetDb(wt, "old")
    /\ trace' = trace \o <<"restore", "checkout base", "set_db old", "make">>
    /\ MakeStart(FALSE, MultiScripts(MaxMultiLines))
    /\ cpc' = "cw_base"
    /\ UNCHANGED <<report, flashRet, git_was_dirty>>

\* a slip: the diff is computed before the checkout back
CwFinishDiffFirst ==
    /\ cpc = "cw_base"
    /\ pc = "returned"
    /\ trace' = trace \o <<"restore", "get_diff", "checkout back">>
    /\ head' = "orig"
    /\ report' = GetDiff(wt)
    /\ cpc' = "cw_done"
    /\ pc' = "idle"
    /\ UNCHANGED <<outScript, errScript, outRead, errRead, selKeys, ok, results, logs,
                   compiler_log, context, pb, ret, childExit, skipClean, cleanCount,
                   passNo>>
    /\ UNCHANGED <<wt, cwResults, flashRet, git_was_dirty>>

\* lines 536-539: the base build has returned: restore, checkout back, get_diff
CwFinish ==
    /\ cpc = "cw_base"
    /\ pc = "returned"
    /\ trace' = trace \o <<"restore", "checkout back", "get_diff">>
    /\ head' = "orig"
    /\ report' = GetDiff(wt)
    /\ cpc' = "cw_done"
    /\ pc' = "idle"
    /\ UNCHANGED <<outScript, errScript, outRead, errRead, selKeys, ok, results, logs,
                   compiler_log, context, pb, ret, childExit, skipClean, cleanCount,
                   passNo>>
    /\ UNCHANGED <<wt, cwResults, flashRet, git_was_dirty>>

InitSession ==
    /\ InitCommon
    /\ cpc = "cw_start"
    /\ wt = NewTracker

NextSession ==
    \/ CwStart \/ CwAbort \/ CwBase \/ CwFinish
    \/ Select \/ ReadEof \/ ReadStdout \/ ReadStderr \/ MakeReturn

SpecSession == InitSession /\ [][NextSession]_vars

--------------------------------------------------------------------------
(* What a pass would yield had every line of both streams been handled,    *)
(* stdout first and stderr after it: the outcome no interleaving changes   *)

RECURSIVE FoldStdout(_, _)
FoldStdout(res, lines) ==
    IF lines = <<>> THEN res
    ELSE FoldStdout(OnStdoutResults(res, Head(lines)), Tail(lines))

RECURSIVE FoldStderr(_, _)
FoldStderr(st, lines) ==
    IF lines = <<>> THEN st
    ELSE FoldStderr([logs |-> OnStderrLogs(st.logs, st.context, Head(lines)),
                     context |-> OnStderrContext(st.context, Head(lines)),
                     wt |-> OnStderrTracker(st.wt, st.context, Head(lines))],
                    Tail(lines))

\* the tracker as it was when the pass of Spec began: nothing recorded yet
TrackerAtStart == [wt EXCEPT !.old_db = EmptyDb, !.new_db = EmptyDb]

WholeStderr ==
    FoldStderr([logs |-> FreshLogs, context |-> <<>>, wt |-> TrackerAtStart], errScript)

\* the stdout lines read so far in this pass
ReadMarker(m) == \E i \in 1..outRead : Contains(outScript[i], m)

HasDigit(s) == \E i \in 1..Len(s) : s[i] \in Digits

\* the value of the first run of decimal digits of s, by position
FirstDigitPos(s) == CHOOSE i \in 1..Len(s) : s[i] \in Digits /\ \A j \in 1..(i - 1) : s[j] \notin Digits
FirstRunEnd(s) ==
    CHOOSE j \in FirstDigitPos(s)..Len(s) :
        /\ \A k \in FirstDigitPos(s)..j : s[k] \in Digits
        /\ j = Len(s) \/ s[j + 1] \notin Digits
RECURSIVE Pow10(_)
Pow10(n) == IF n = 0 THEN 1 ELSE 10 * Pow10(n - 1)
RECURSIVE PlaceSum(_, _, _)
PlaceSum(s, i, j) ==
    IF i > j THEN 0 ELSE DigitVal(s[i]) * Pow10(j - i) + PlaceSum(s, i + 1, j)
FirstRunValue(s) == PlaceSum(s, FirstDigitPos(s), FirstRunEnd(s))

\* this step reads a line of stdout
StdoutLineRead == pc = "for" /\ outRead' = outRead + 1

--------------------------------------------------------------------------
(* Claims on one pass of _make *)

\* C1: when _make returns, every line the child emitted on either stream has
\* been read: the loop stopped only after both streams reached end-of-stream.
C1_AllLinesReadAtReturn ==
    pc = "returned" => outRead = Len(outScript) /\ errRead = Len(errScript)

\* C2: for fixed per-stream line sequences, the returned result and the census
\* are those of the lines taken stream by stream, under every interleaving of
\* the readiness events.
C2_OutcomeSameUnderEveryInterleaving ==
    pc = "returned" =>
        /\ ret = ReturnValue(FoldStdout(FreshResults, outScript), WholeStderr.logs)
        /\ wt = WholeStderr.wt

\* C3: reading a stdout line that contains 'Size of flash image' makes status
\* PASS and size the value of the first run of decimal digits of the line;
\* the line of scenario A gives 123456.
C3_SizeLineSetsPassAndSize ==
    [][StdoutLineRead /\ Contains(outScript[outRead + 1], SIZE_MARKER) =>
          /\ results'.status = "PASS"
          /\ HasDigit(outScript[outRead + 1]) =>
                results'.size = FirstRunValue(outScript[outRead + 1])
          /\ outScript[outRead + 1] = SizeLineA => results'.size = 123456]_vars

C3_Witness ==
    /\ outRead >= 1
    /\ outScript[outRead] = SizeLineTwoRuns
    /\ results.status = "PASS"
    /\ results.size = 42

\* C4: a stdout line with 'Size of flash image' and no decimal digit raises no
\* error: the pass goes on, and the outcome it returns has status PASS.
C4_MalformedSizeLineNotFatal ==
    (\E i \in 1..outRead :
        Contains(outScript[i], SIZE_MARKER) /\ ~HasDigit(outScript[i])) =>
        /\ pc # "raised"
        /\ pc = "returned" => ret.status = "PASS"

\* C5: a stdout line with 'Please run make again!' and no success marker sets
\* rerun and leaves status and size as they were; a returned pass in which such
\* a line and no success-marker line was read has rerun true and status not PASS.
C5_RerunLineSetsOnlyRerun ==
    /\ [][StdoutLineRead /\ Contains(outScript[outRead + 1], RERUN_MARKER)
            /\ ~Contains(outScript[outRead + 1], SIZE_MARKER) =>
              /\ results'.rerun
              /\ results'.status = results.status
              /\ results'.size = results.size]_vars
    /\ [](pc = "returned"
            /\ (\E i \in 1..outRead : Contains(outScript[i], RERUN_MARKER)
                                      /\ ~Contains(outScript[i], SIZE_MARKER))
            /\ ~ReadMarker(SIZE_MARKER) =>
              ret.rerun /\ ret.status # "PASS")

C5_Witness ==
    /\ pc = "returned"
    /\ outRead >= 1
    /\ outScript[outRead] = RerunLine
    /\ ~ReadMarker(SIZE_MARKER)
    /\ ret.rerun
    /\ ret.status = "FAIL"

\* C6: the returned status is PASS exactly when a success-marker line was read
\* on stdout in the pass, whatever the child's exit code; a pass in which none
\* was read raises nothing and returns FAIL with the categorized logs.
C6_StatusIffSuccessMarkerRead ==
    /\ pc = "returned" =>
          /\ ret.status = "PASS" <=> ReadMarker(SIZE_MARKER)
          /\ ret.status # "PASS" => ret.status = "FAIL"
          /\ ret.logs = logs
    /\ pc = "raised" => ReadMarker(SIZE_MARKER)

C6_Witness ==
    /\ pc = "returned"
    /\ childExit = "nonzero"
    /\ ret.status = "PASS"
    /\ ret.logs.error # <<>>


--------------------------------------------------------------------------
(* Claims on _make_flash *)

\* C7: _make_flash runs its first pass with the clean step and every later
\* pass without it, starts another pass exactly when the pass before returned
\* rerun == true, and returns only an outcome whose rerun is false; so the
\* clean step runs once per call, before the first pass.
C7_FlashRerunsUntilNoRerun ==
    /\ [](/\ passNo >= 1 => cleanCount = 1
          /\ passNo = 1 => ~skipClean
          /\ passNo > 1 => skipClean
          /\ cpc = "flash_done" =>
                /\ ~flashRet.rerun
                /\ flashRet = [ret EXCEPT !.path = flashRet.path])
    /\ [][/\ passNo' # passNo =>
                /\ passNo' = passNo + 1
                /\ passNo = 0 \/ (pc = "returned" /\ ret.rerun)
          /\ cpc = "flash_loop" /\ pc = "returned" /\ ret.rerun => passNo' = passNo + 1
          /\ cpc = "flash_loop" /\ pc = "returned" /\ ~ret.rerun =>
                cpc' = "flash_done" /\ passNo' = passNo]_vars

C7_Witness ==
    /\ cpc = "flash_done"
    /\ passNo = 3
    /\ cleanCount = 1
    /\ flashRet.status = "PASS"

--------------------------------------------------------------------------
(* Claims on check_warnings *)

IsPrefix(a, b) == Len(a) <= Len(b) /\ a = SubSeq(b, 1, Len(a))

SessionOrder ==
    <<"set_db new", "make", "restore", "checkout base", "set_db old", "make",
      "restore", "checkout back", "get_diff">>

\* C8: in a session whose candidate build passes the guard the operations are
\* issued in the order: select 'new', candidate build, restore, checkout of the
\* base ref, select 'old', base build, restore, checkout back, diff; and the
\* diff is never computed while the base ref is checked out.
C8_SessionOrder ==
    /\ IsPrefix(trace, SessionOrder)
    /\ cpc = "cw_base" => trace = SubSeq(SessionOrder, 1, 6) /\ head = "base"
    /\ cpc = "cw_done" => trace = SessionOrder
    /\ report.printed => head = "orig" /\ cpc = "cw_done"

C8_Witness ==
    /\ cpc = "cw_done"
    /\ cwResults.status = "PASS"
    /\ trace = SessionOrder
    /\ report.printed
    /\ head = "orig"

\* C9: the candidate build and the base build are each run to completion: the
\* session moves on to restoring files and checking out only after a pass that
\* returned rerun == false.
C9_BuildsRunToCompletion ==
    /\ cpc \in {"cw_base", "cw_done"} => ~cwResults.rerun
    /\ cpc = "cw_done" => ~ret.rerun

\* C10: when the candidate outcome has status not PASS and rerun false, the
\* session ends with the base ref never checked out, 'old' never selected nor
\* written, no base build run and no diff report produced.
C10_FailedCandidateAborts ==
    cwResults.status # "None" /\ cwResults.status # "PASS" /\ ~cwResults.rerun =>
        /\ cpc = "cw_aborted"
        /\ head = "orig"
        /\ \A i \in 1..Len(trace) : trace[i] \notin {"checkout base", "set_db old", "get_diff"}
        /\ wt.active = "new"
        /\ wt.old_db = EmptyDb
        /\ passNo = 1
        /\ ~report.printed

C10_Witness ==
    /\ cpc = "cw_aborted"
    /\ cwResults.status = "FAIL"
    /\ ~cwResults.rerun
    /\ cwResults.logs.error # <<>>
    /\ trace = <<"set_db new", "make", "restore">>


\* C11: when the candidate outcome has status not PASS and rerun false, no
\* version-control operation is issued after that build: neither a checkout
\* nor a restore of generated files.
C11_FailedCandidateTouchesNoVcs ==
    cwResults.status # "None" /\ cwResults.status # "PASS" /\ ~cwResults.rerun =>
        /\ head = "orig"
        /\ \A i \in 1..Len(trace) :
              trace[i] \notin {"restore", "checkout base", "checkout back"}

\* the session is over: it returned, or an exception left it
SessionEnded == cpc \in {"cw_done", "cw_aborted", "raised"}

\* C12: once the base ref is checked out, the restore and the checkout back
\* are executed on every path, also when the base build raises: the session
\* never ends with the base ref still checked out.
C12_SessionNeverEndsOnBase ==
    SessionEnded => head = "orig"


--------------------------------------------------------------------------
(* One pass of _make over stderr lines in which the markers co-occur *)

InitDiag ==
    /\ InitCommon
    /\ cpc = "call_make_diag"
    /\ wt \in {NoTracker, SetDb(NewTracker, "new")}

CallMakeDiag ==
    /\ cpc = "call_make_diag"
    /\ MakeStart(FALSE, DiagScripts(MaxDiagLines))
    /\ cpc' = "in_make"
    /\ UNCHANGED callerVars

NextDiag == CallMakeDiag \/ Select \/ ReadEof \/ ReadStdout \/ ReadStderr \/ MakeReturn

SpecDiag == InitDiag /\ [][NextDiag]_vars

\* this step reads a line of stderr and handles it
StderrLineRead == pc = "for" /\ errRead' = errRead + 1 /\ pc' # "raised"

\* the sum of the counts of the mapping set_db selected
ActiveTotal(w) ==
    IF w.active = "old" THEN SumValues(w.old_db)
    ELSE IF w.active = "new" THEN SumValues(w.new_db)
    ELSE 0

\* the line is recorded as a warning and put in no log
TakenAsWarning ==
    /\ logs' = logs
    /\ wt.present => ActiveTotal(wt') = ActiveTotal(wt) + 1
    /\ ~wt.present => wt' = wt

\* C13 as stated: every stderr line with ': warning:' and without '/tmp/cc' is
\* recorded as a warning and appended to neither log, whatever else it holds.
C13_WarningWhateverElse ==
    [][StderrLineRead /\ Contains(errScript[errRead + 1], WARNING_MARKER)
          /\ ~Contains(errScript[errRead + 1], TMP_MARKER) => TakenAsWarning]_vars

\* C13 as amended: every stderr line with ': warning:' and with none of
\* '/tmp/cc', ': error:' and ': undefined reference' is recorded in the census
\* when a tracker is present and appended to neither the linker nor the error
\* log, whatever else it holds ('/bin/ld' included).
C13_WarningUnlessErrorMarker ==
    [][StderrLineRead /\ Contains(errScript[errRead + 1], WARNING_MARKER)
          /\ ~Contains(errScript[errRead + 1], TMP_MARKER)
          /\ ~Contains(errScript[errRead + 1], ERROR_MARKER)
          /\ ~Contains(errScript[errRead + 1], UNDEF_MARKER) => TakenAsWarning]_vars

C13_Witness ==
    /\ errRead >= 1
    /\ errScript[errRead] = LdWarningLine
    /\ wt.present
    /\ SumValues(wt.new_db) = errRead
    /\ logs = FreshLogs

\* how often a key was recorded in a mapping, 0 when it is absent
CountOf(db, k) == IF k \in DOMAIN db THEN db[k] ELSE 0

ActiveDb(w) == IF w.active = "old" THEN w.old_db ELSE w.new_db

\* the stderr line this step reads, and the unit it forms with the buffer
LineRead == errScript[errRead + 1]
UnitRead == context \o LineRead

\* the census counts the normalized unit once more
UnitCounted ==
    CountOf(ActiveDb(wt'), Normalize(UnitRead)) =
        CountOf(ActiveDb(wt), Normalize(UnitRead)) + 1

\* context lines are buffered, noise leaves the buffer alone
ContextBuffered ==
    /\ Classify(LineRead) = "context" =>
          context' = UnitRead /\ logs' = logs /\ wt' = wt
    /\ Classify(LineRead) = "noise" =>
          context' = context /\ logs' = logs /\ wt' = wt

\* a linker or error line is appended to its log behind the buffered context
LinkerErrorStored ==
    /\ Classify(LineRead) = "linker" =>
          /\ logs' = [logs EXCEPT !.linker = logs.linker \o UnitRead]
          /\ context' = <<>> /\ wt' = wt
    /\ Classify(LineRead) = "error" =>
          /\ logs' = [logs EXCEPT !.error = logs.error \o UnitRead]
          /\ context' = <<>> /\ wt' = wt

\* C14 as stated: context lines are buffered; the next linker, error or
\* warning line is stored with the buffered context in front, in its own
\* category (for a warning: in the warning log, or in the census under its
\* normalized key); the buffer is empty right after any diagnostic line.
C14_EveryDiagnosticStored ==
    [][StderrLineRead =>
          /\ ContextBuffered
          /\ LinkerErrorStored
          /\ Classify(LineRead) = "warning" =>
                /\ context' = <<>>
                /\ \/ logs' = [logs EXCEPT !.warning = logs.warning \o UnitRead]
                   \/ logs' = logs /\ UnitCounted]_vars

\* C14 as amended: context lines are buffered; the next linker or error line
\* is appended to its log as the buffered context followed by the line; the
\* next warning line is handed to the census as the buffered context followed
\* by the line when a tracker is present, and is stored nowhere when there is
\* none; the warning log stays empty; the buffer is empty right after any
\* diagnostic line.
C14_ContextPrefixedThenCleared ==
    [][StderrLineRead =>
          /\ ContextBuffered
          /\ LinkerErrorStored
          /\ Classify(LineRead) = "warning" =>
                /\ context' = <<>> /\ logs' = logs
                /\ wt.present => UnitCounted
                /\ ~wt.present => wt' = wt]_vars

\* the example: 'note: in expansion' then 'file.c:4: error: X', and after
\* them a warning while no tracker is present
C14_Witness ==
    /\ errRead = 3
    /\ errScript = <<ContextLine, ErrorLine, WarningLine>>
    /\ logs = [FreshLogs EXCEPT !.error = ContextLine \o ErrorLine]
    /\ context = <<>>
    /\ wt = NoTracker

--------------------------------------------------------------------------
(* A WarningTracker driven on its own: any order of set_db, add, get_diff *)

DbNames == {"old", "new", "other"}

WarnX10 == <<"a.c", ":", "1", "0", ":", " ", "warning", ":", " ", "unused variable x">>
WarnX20 == <<"a.c", ":", "2", "0", ":", " ", "warning", ":", " ", "unused variable x">>
WarnY5 == <<"a.c", ":", "5", ":", " ", "warning", ":", " ", "unused variable y">>
SampleWarnings == {WarnX10, WarnX20, WarnY5}

\* one entry of the call history: the method, its argument, whether it raised
Call(op, arg, raised) == [op |-> op, arg |-> arg, raised |-> raised]

InitTracker ==
    /\ InitCommon
    /\ cpc = "tracker"
    /\ wt = NewTracker

TrSetDb ==
    /\ cpc = "tracker"
    /\ Len(trace) < MaxCalls
    /\ \E dest \in DbNames :
          /\ wt' = SetDb(wt, dest)
          /\ trace' = Append(trace, Call("set_db", <<dest>>, SetDbRaises(dest)))
    /\ UNCHANGED <<cpc, pc, outScript, errScript, outRead, errRead, selKeys, ok, results,
                   logs, compiler_log, context, pb, ret, childExit, skipClean,
                   cleanCount, passNo, head, cwResults, report, flashRet, git_was_dirty>>

TrAdd ==
    /\ cpc = "tracker"
    /\ Len(trace) < MaxCalls
    /\ \E warning \in SampleWarnings :
          /\ wt' = IF AddRaises(wt) THEN wt ELSE Add(wt, warning)
          /\ trace' = Append(trace, Call("add", warning, AddRaises(wt)))
    /\ UNCHANGED <<cpc, pc, outScript, errScript, outRead, errRead, selKeys, ok, results,
                   logs, compiler_log, context, pb, ret, childExit, skipClean,
                   cleanCount, passNo, head, cwResults, report, flashRet, git_was_dirty>>

TrGetDiff ==
    /\ cpc = "tracker"
    /\ Len(trace) < MaxCalls
    /\ report' = GetDiff(wt)
    /\ trace' = Append(trace, Call("get_diff", <<>>, FALSE))
    /\ UNCHANGED <<cpc, pc, outScript, errScript, outRead, errRead, selKeys, ok, results,
                   logs, compiler_log, context, pb, ret, childExit, skipClean,
                   cleanCount, passNo, wt, head, cwResults, flashRet, git_was_dirty>>

NextTracker == TrSetDb \/ TrAdd \/ TrGetDiff

SpecTracker == InitTracker /\ [][NextTracker]_vars

\* this step makes one call on the tracker; LastCall' is that call
CallMade == Len(trace') = Len(trace) + 1
LastCall == trace[Len(trace)]

\* the name given by the last set_db call of the history that named a
\* mapping, "None" when there was none
RECURSIVE LastSelected(_)
LastSelected(tr) ==
    IF tr = <<>> THEN "None"
    ELSE LET c == tr[Len(tr)]
         IN IF c.op = "set_db" /\ c.arg \in {<<"old">>, <<"new">>} THEN c.arg[1]
            ELSE LastSelected(SubSeq(tr, 1, Len(tr) - 1))

\* C15: set_db with a name other than 'old' and 'new' raises and leaves the
\* active selection and both mappings unchanged; set_db('old') or
\* set_db('new') changes the contents of neither mapping, and every later add
\* goes to the mapping named by the last such call and not to the other one.
C15_SetDbSelectsOrRaises ==
    [][CallMade =>
          /\ LastCall'.op = "set_db" /\ LastCall'.arg \notin {<<"old">>, <<"new">>} =>
                LastCall'.raised /\ wt' = wt
          /\ LastCall'.op = "set_db" /\ LastCall'.arg \in {<<"old">>, <<"new">>} =>
                /\ ~LastCall'.raised
                /\ wt'.old_db = wt.old_db /\ wt'.new_db = wt.new_db
          /\ LastCall'.op = "add" /\ LastSelected(trace) = "old" =>
                /\ ~LastCall'.raised
                /\ wt'.old_db # wt.old_db /\ wt'.new_db = wt.new_db
          /\ LastCall'.op = "add" /\ LastSelected(trace) = "new" =>
                /\ ~LastCall'.raised
                /\ wt'.new_db # wt.new_db /\ wt'.old_db = wt.old_db]_vars

\* 'new' was selected, then a bad name was refused, then an add went to 'new'
C15_Witness ==
    /\ Len(trace) = 3
    /\ trace[1] = Call("set_db", <<"new">>, FALSE)
    /\ trace[2] = Call("set_db", <<"other">>, TRUE)
    /\ trace[3].op = "add"
    /\ DOMAIN wt.new_db # {}
    /\ DOMAIN wt.old_db = {}

InactiveDb(w) == IF w.active = "old" THEN w.new_db ELSE w.old_db

\* the mapping after is the mapping before with the count of k one higher
OneMore(before, after, k) ==
    /\ DOMAIN after = DOMAIN before \cup {k}
    /\ after[k] = CountOf(before, k) + 1
    /\ \A x \in DOMAIN before \ {k} : after[x] = before[x]

CountsPositive(db) == \A k \in DOMAIN db : db[k] >= 1

\* C16: add(w) raises by exactly one the count of the normalized key of w in
\* the active mapping (1 when the key was absent), changes no other key of
\* it, and leaves the inactive mapping and the selection unchanged; every
\* count stored in either mapping is at least 1.
C16_AddCountsOneInActiveOnly ==
    /\ [](CountsPositive(wt.old_db) /\ CountsPositive(wt.new_db))
    /\ [][CallMade /\ LastCall'.op = "add" /\ ~LastCall'.raised =>
             /\ OneMore(ActiveDb(wt), ActiveDb(wt'), Normalize(LastCall'.arg))
             /\ InactiveDb(wt') = InactiveDb(wt)
             /\ wt'.active = wt.active]_vars

\* a key of 'new' has just been counted a second time next to another key,
\* while 'old' holds a key as well
C16_Witness ==
    /\ trace # <<>>
    /\ LastCall.op = "add"
    /\ wt.active = "new"
    /\ wt.new_db[Normalize(LastCall.arg)] = 2
    /\ DOMAIN wt.new_db # {Normalize(LastCall.arg)}
    /\ DOMAIN wt.old_db # {}

\* get_diff was the last call, so the report is the one of this census
JustDiffed == trace # <<>> /\ LastCall.op = "get_diff"

\* by how much a exceeds b on each key where it does, absent keys counting 0
Excess(a, b) ==
    [k \in {x \in DOMAIN a \cup DOMAIN b : CountOf(a, x) - CountOf(b, x) > 0} |->
        CountOf(a, k) - CountOf(b, k)]

KeyX == <<"a.c", ":", "#", ":", " ", "warning", ":", " ", "unused variable x">>
KeyY == <<"a.c", ":", "#", ":", " ", "warning", ":", " ", "unused variable y">>

\* C18: get_diff computes a difference of multisets: with absent keys counted
\* as 0, removed[k] = old[k] - new[k] where that is positive, added[k] =
\* new[k] - old[k] where that is positive, k is in neither otherwise, and the
\* two totals are the sums of those counts.
C18_DiffIsMultisetDifference ==
    JustDiffed =>
        /\ report.removed = Excess(wt.old_db, wt.new_db)
        /\ report.added = Excess(wt.new_db, wt.old_db)
        /\ report.removed_total = SumValues(Excess(wt.old_db, wt.new_db))
        /\ report.added_total = SumValues(Excess(wt.new_db, wt.old_db))

\* scenario C
C18_Witness ==
    /\ trace = << Call("set_db", <<"old">>, FALSE), Call("add", WarnX10, FALSE),
                  Call("set_db", <<"new">>, FALSE), Call("add", WarnX20, FALSE),
                  Call("add", WarnY5, FALSE), Call("get_diff", <<>>, FALSE) >>
    /\ report.removed = EmptyDb
    /\ report.added = (KeyY :> 1)
    /\ report.added_total = 1
    /\ report.removed_total = 0

Swapped(w) == [w EXCEPT !.old_db = w.new_db, !.new_db = w.old_db]

\* C19: the diff of (old = A, new = B) and the diff of (old = B, new = A)
\* have their added and removed sets, keys and counts, exchanged, and their
\* totals exchanged.
C19_SwapExchangesAddedAndRemoved ==
    /\ GetDiff(wt).added = GetDiff(Swapped(wt)).removed
    /\ GetDiff(wt).removed = GetDiff(Swapped(wt)).added
    /\ GetDiff(wt).added_total = GetDiff(Swapped(wt)).removed_total
    /\ GetDiff(wt).removed_total = GetDiff(Swapped(wt)).added_total

\* a diff was reported that has something removed and something added
C19_Witness ==
    /\ JustDiffed
    /\ report = GetDiff(wt)
    /\ DOMAIN report.removed # {}
    /\ DOMAIN report.added # {}
    /\ report.removed_total # report.added_total

\* C20: when 'old' and 'new' hold the same keys with the same counts
\* (both empty included) get_diff reports nothing removed, nothing added,
\* and totals of 0 and 0.
C20_EqualCensusEmptyDiff ==
    JustDiffed /\ wt.old_db = wt.new_db =>
        /\ report.removed = EmptyDb
        /\ report.added = EmptyDb
        /\ report.removed_total = 0
        /\ report.added_total = 0

\* the same warning was counted on both sides at different lines
C20_Witness ==
    /\ JustDiffed
    /\ wt.old_db = wt.new_db
    /\ wt.old_db = (KeyX :> 1)
    /\ report.printed
    /\ report.added = EmptyDb

--------------------------------------------------------------------------
(* WarningTracker.add given texts that differ only in line-number fields *)

\* a warning text with holes: "H" stands for a line number still to be
\* chosen, and is allowed only with a colon on either side
Hole == "H"
TemplateChars == {":", "a", "9", Hole}

WellFormed(t) ==
    \A i \in 1..Len(t) :
        t[i] = Hole => i > 1 /\ i < Len(t) /\ t[i - 1] = ":" /\ t[i + 1] = ":"

Templates(n) == {t \in SeqsUpTo(TemplateChars, n) : WellFormed(t)}

DigitStrings == {<<"1">>, <<"2", "0">>}

NumHoles(t) == Cardinality({i \in 1..Len(t) : t[i] = Hole})

\* the line numbers for the holes of t, in order
Fills(t) == [1..NumHoles(t) -> DigitStrings]

\* t with its holes filled in order by the digit strings of f
RECURSIVE Fill(_, _)
Fill(t, f) ==
    IF t = <<>> THEN <<>>
    ELSE IF Head(t) = Hole THEN Head(f) \o Fill(Tail(t), Tail(f))
    ELSE <<Head(t)>> \o Fill(Tail(t), f)

InitNormalize ==
    /\ InitCommon
    /\ cpc = "norm_first"
    /\ wt = SetDb(NewTracker, "new")

\* add(w) for some warning text w
NormFirst ==
    /\ cpc = "norm_first"
    /\ \E t \in Templates(MaxTemplateLen) : \E f \in Fills(t) :
          /\ wt' = Add(wt, Fill(t, f))
          /\ trace' = <<t, Fill(t, f)>>
    /\ cpc' = "norm_second"
    /\ UNCHANGED <<pc, outScript, errScript, outRead, errRead, selKeys, ok, results,
                   logs, compiler_log, context, pb, ret, childExit, skipClean,
                   cleanCount, passNo, head, cwResults, report, flashRet, git_was_dirty>>

\* add(w2) for a text w2 that differs from w in its line numbers at most
NormSecond ==
    /\ cpc = "norm_second"
    /\ \E f \in Fills(trace[1]) :
          /\ wt' = Add(wt, Fill(trace[1], f))
          /\ trace' = Append(trace, Fill(trace[1], f))
    /\ cpc' = "norm_key"
    /\ UNCHANGED <<pc, outScript, errScript, outRead, errRead, selKeys, ok, results,
                   logs, compiler_log, context, pb, ret, childExit, skipClean,
                   cleanCount, passNo, head, cwResults, report, flashRet, git_was_dirty>>

\* add(k) for a key k the census already holds
NormKey ==
    /\ cpc = "norm_key"
    /\ \E k \in DOMAIN wt.new_db :
          /\ wt' = Add(wt, k)
          /\ trace' = Append(trace, k)
    /\ cpc' = "norm_done"
    /\ UNCHANGED <<pc, outScript, errScript, outRead, errRead, selKeys, ok, results,
                   logs, compiler_log, context, pb, ret, childExit, skipClean,
                   cleanCount, passNo, head, cwResults, report, flashRet, git_was_dirty>>

NextNormalize == NormFirst \/ NormSecond \/ NormKey

SpecNormalize == InitNormalize /\ [][NextNormalize]_vars

\* a colon, one or more digits, a colon
HasLineField(s) ==
    \E i \in 1..Len(s) : \E j \in (i + 2)..Len(s) :
        /\ s[i] = ":"
        /\ s[j] = ":"
        /\ \A m \in (i + 1)..(j - 1) : s[m] \in Digits

\* C17: the key add stores never contains ':<digits>:', whatever the text,
\* fields that share a colon included; two texts that differ only in their
\* line-number fields are counted under one key; and adding a key itself
\* counts under that same key (normalizing it again returns it).
C17_NormalizeCompleteIdempotent ==
    /\ \A k \in DOMAIN wt.new_db : ~HasLineField(k) /\ Normalize(k) = k
    /\ cpc = "norm_key" =>
          \E k \in DOMAIN wt.new_db : wt.new_db = [x \in {k} |-> 2]
    /\ cpc = "norm_done" =>
          \E k \in DOMAIN wt.new_db : wt.new_db = [x \in {k} |-> 3]

\* three fields that share their colons, with different line numbers in the
\* two texts, counted three times under ':#:#:#:'
C17_Witness ==
    /\ cpc = "norm_done"
    /\ trace[1] = <<":", Hole, ":", Hole, ":", Hole, ":">>
    /\ trace[2] # trace[3]
    /\ wt.new_db = (<<":", "#", ":", "#", ":", "#", ":">> :> 3)

--------------------------------------------------------------------------
(* The warnings session and the census *)

\* this step takes a line of stderr, whether or not handling it raises
StderrLineTaken == pc = "for" /\ errRead' = errRead + 1

\* C21: whenever a warning line is handed to a tracker, set_db has selected
\* 'old' or 'new' before: the active mapping is not None, add does not
\* raise, and the line is counted in that one mapping.
C21_AddOnlyAfterSetDb ==
    [][StderrLineTaken /\ Classify(LineRead) = "warning" /\ wt.present =>
          /\ wt.active \in {"old", "new"}
          /\ pc' # "raised"
          /\ SumValues(ActiveDb(wt')) = SumValues(ActiveDb(wt)) + 1
          /\ InactiveDb(wt') = InactiveDb(wt)]_vars

\* warnings have been recorded in both builds of a session
C21_Witness ==
    /\ cpc = "cw_base"
    /\ wt.active = "old"
    /\ DOMAIN wt.old_db # {}
    /\ DOMAIN wt.new_db # {}

\* C22: at every point of a pass a size other than 0 implies status PASS;
\* within one pass status never goes from PASS back to FAIL and rerun never
\* goes from true back to false.
C22_SizeImpliesPassAndFlagsStick ==
    /\ [](results.size # 0 => results.status = "PASS")
    /\ [][passNo' = passNo =>
             /\ results.status = "PASS" => results'.status = "PASS"
             /\ results.rerun => results'.rerun]_vars

\* a size was recorded, and a rerun request was read after it
C22_Witness ==
    /\ outRead >= 2
    /\ outScript[outRead] = RerunLine
    /\ results.size > 0
    /\ results.status = "PASS"
    /\ results.rerun

--------------------------------------------------------------------------
(* The logs of one pass *)

\* the stderr lines read so far in this pass, in the order of emission
StderrLinesRead == SubSeq(errScript, 1, errRead)

RECURSIVE Flatten(_)
Flatten(lines) == IF lines = <<>> THEN <<>> ELSE Head(lines) \o Flatten(Tail(lines))

\* the log grows at its end only, and what was added ends with the line
GrowsByLine(before, after, line) ==
    /\ Len(after) >= Len(before)
    /\ SubSeq(after, 1, Len(before)) = before
    /\ after # before =>
          /\ Len(after) >= Len(before) + Len(line)
          /\ SubSeq(after, Len(after) - Len(line) + 1, Len(after)) = line

\* C23: compiler_log is exactly the concatenation of the stderr lines read in
\* the pass, in the order of emission, noise lines included, and holds no
\* line of stdout; the linker and error logs keep their entries in the order
\* of emission as well: each grows at its end only, by a unit that ends with
\* the line just read, and no step that reads stdout changes a log.
C23_RawLogIsStderrInOrder ==
    /\ [](compiler_log = Flatten(StderrLinesRead))
    /\ [][/\ StderrLineTaken =>
                /\ GrowsByLine(logs.linker, logs'.linker, LineRead)
                /\ GrowsByLine(logs.error, logs'.error, LineRead)
          /\ errRead' = errRead /\ passNo' = passNo =>
                compiler_log' = compiler_log /\ logs' = logs]_vars

\* a noise line and two errors were read
C23_Witness ==
    /\ errRead = 3
    /\ StderrLinesRead = <<NoiseLine, ErrorLine, UndefLine>>
    /\ compiler_log = NoiseLine \o ErrorLine \o UndefLine
    /\ logs.error = ErrorLine \o UndefLine

\* the rules of the claims, stated on the markers a line holds
HoldsTmp(l) == Contains(l, TMP_MARKER)
HoldsLinker(l) == Contains(l, LD_MARKER) /\ ~Contains(l, WARNING_WORD)
HoldsError(l) == Contains(l, ERROR_MARKER) \/ Contains(l, UNDEF_MARKER)

\* C24: a stderr line with '/bin/ld', without 'warning:' and without
\* '/tmp/cc' is appended to the linker log only, also when it holds
\* ': error:' or ': undefined reference'; a line with ': error:' or
\* ': undefined reference' that is neither such a linker line nor a noise
\* line is appended to the error log only.
C24_LinkerBeforeError ==
    [][StderrLineTaken /\ ~HoldsTmp(LineRead) =>
          /\ HoldsLinker(LineRead) =>
                /\ logs' = [logs EXCEPT !.linker = logs.linker \o UnitRead]
                /\ wt' = wt
          /\ ~HoldsLinker(LineRead) /\ HoldsError(LineRead) =>
                /\ logs' = [logs EXCEPT !.error = logs.error \o UnitRead]
                /\ wt' = wt]_vars

\* a linker line that holds ': error:' went to the linker log, and a line
\* with both ': warning:' and ': error:' went to the error log
C24_Witness ==
    /\ errRead = 2
    /\ StderrLinesRead = <<LinkerLine, WarnErrorLine>>
    /\ logs = [FreshLogs EXCEPT !.linker = LinkerLine, !.error = WarnErrorLine]

\* text ends with tail
EndsWith(text, tail) ==
    /\ Len(text) >= Len(tail)
    /\ SubSeq(text, Len(text) - Len(tail) + 1, Len(text)) = tail

\* the line read now follows a noise line that followed a context line
AfterContextThenNoise ==
    /\ errRead >= 2
    /\ HoldsTmp(errScript[errRead])
    /\ Classify(errScript[errRead - 1]) = "context"

\* C25: a stderr line with '/tmp/cc' is dropped whatever else it holds: it
\* goes to no log and not to the census, it is not added to the context
\* buffer and does not empty it; context gathered before it is still put in
\* front of the next diagnostic.
C25_NoiseDroppedContextKept ==
    [][StderrLineTaken =>
          /\ HoldsTmp(LineRead) => logs' = logs /\ wt' = wt /\ context' = context
          /\ AfterContextThenNoise /\ Classify(LineRead) = "linker" =>
                EndsWith(logs'.linker, errScript[errRead - 1] \o LineRead)
          /\ AfterContextThenNoise /\ Classify(LineRead) = "error" =>
                EndsWith(logs'.error, errScript[errRead - 1] \o LineRead)]_vars

\* a noise line that holds ': warning:' stood between a context line and an
\* error, with a tracker present
C25_Witness ==
    /\ errRead = 3
    /\ StderrLinesRead = <<ContextLine, NoiseLine, ErrorLine>>
    /\ logs = [FreshLogs EXCEPT !.error = ContextLine \o ErrorLine]
    /\ wt = SetDb(NewTracker, "new")
    /\ context = <<>>

\* how many of the stderr lines read in the current build are warning lines
WarningsRead == Len(SelectSeq(StderrLinesRead, LAMBDA l : Classify(l) = "warning"))

\* C26: in a session every warning line read during the candidate build is
\* counted once in 'new' and changes nothing in 'old'; every warning line
\* read during the base build is counted once in 'old' and changes nothing
\* in 'new'; the sum of the counts of a generation is the number of warning
\* lines read in its build.
C26_EachBuildFillsItsGeneration ==
    /\ [](/\ cpc = "cw_candidate" =>
                SumValues(wt.new_db) = WarningsRead /\ wt.old_db = EmptyDb
          /\ cpc = "cw_base" => SumValues(wt.old_db) = WarningsRead)
    /\ [][StderrLineTaken /\ Classify(LineRead) = "warning" =>
             /\ cpc = "cw_candidate" =>
                   /\ SumValues(wt'.new_db) = SumValues(wt.new_db) + 1
                   /\ wt'.old_db = wt.old_db
             /\ cpc = "cw_base" =>
                   /\ SumValues(wt'.old_db) = SumValues(wt.old_db) + 1
                   /\ wt'.new_db = wt.new_db]_vars

\* one warning in the candidate build, two in the base build
C26_Witness ==
    /\ cpc = "cw_base"
    /\ pc = "returned"
    /\ WarningsRead = 2
    /\ SumValues(wt.old_db) = 2
    /\ SumValues(wt.new_db) = 1

--------------------------------------------------------------------------
(* Passes that follow one another *)

\* what the lines read in the current pass amount to, from a fresh start
OutcomeOfLinesRead ==
    FoldStdout(FreshResults, SubSeq(outScript, 1, outRead))

LogsOfLinesRead ==
    FoldStderr([logs |-> FreshLogs, context |-> <<>>, wt |-> NoTracker],
               StderrLinesRead).logs

\* C27: every pass of _make starts from status FAIL, rerun false, size 0,
\* empty logs and an empty context buffer, so at every point the outcome is
\* what the lines read in the current pass amount to, and what _make_flash
\* returns is what the lines read in its last pass amount to.
C27_EachPassStartsFresh ==
    /\ [](/\ pc \in {"select", "for", "returned"} =>
                results = OutcomeOfLinesRead /\ logs = LogsOfLinesRead
          /\ cpc = "flash_done" =>
                /\ flashRet.status = OutcomeOfLinesRead.status
                /\ flashRet.rerun = OutcomeOfLinesRead.rerun
                /\ flashRet.size = OutcomeOfLinesRead.size
                /\ flashRet.logs = LogsOfLinesRead)
    /\ [][passNo' # passNo =>
             /\ results' = FreshResults
             /\ logs' = FreshLogs
             /\ context' = <<>>]_vars

\* a second pass, entered because the first asked for a rerun, read no
\* success marker: failure is returned
C27_Witness ==
    /\ cpc = "flash_done"
    /\ passNo = 2
    /\ cleanCount = 1
    /\ flashRet.status = "FAIL"
    /\ flashRet.size = 0
    /\ ~flashRet.rerun

--------------------------------------------------------------------------
(* The progress bar of a pass *)

\* every bar whose value is within its range
BarsInRange == {b \in [max : 0..MaxTargets, cur : 0..MaxTargets] : b.cur <= b.max}

\* a tick or a finalize on bar b: the value stays in range, no division by
\* zero, and nothing happens at all when the estimate is 0
CallsKeepInRange(b) ==
    /\ PbUpdateRelative(b, 1) \in BarsInRange
    /\ PbFinalize(b) \in BarsInRange
    /\ 0 \notin PbDivisors(b, b.cur + 1) \cup PbDivisors(b, b.max)
    /\ b.cur = b.max => PbUpdateRelative(b, 1) = b
    /\ b.max = 0 =>
          /\ PbUpdateRelative(b, 1) = b /\ PbFinalize(b) = b
          /\ PbDivisors(b, b.cur + 1) \cup PbDivisors(b, b.max) = {}

\* C28: the value of the progress bar stays within 0..max_value under every
\* tick and finalize, a tick beyond the estimate changes nothing, with an
\* estimate of 0 every tick and finalize does nothing and divides by
\* nothing, and reading a tick line never raises: the pass goes on.
C28_ProgressBarNeverBreaksBuild ==
    /\ [](/\ pb \in BarsInRange
          /\ \A b \in BarsInRange : CallsKeepInRange(b)
          /\ pb.max = 0 => pb.cur = 0)
    /\ [][StdoutLineRead /\ Contains(outScript[outRead + 1], TICK_MARKER)
            /\ ~Contains(outScript[outRead + 1], SIZE_MARKER) =>
             /\ pc' # "raised"
             /\ pb'.max = pb.max
             /\ pb'.cur = IF pb.cur < pb.max THEN pb.cur + 1 ELSE pb.cur
             /\ results' = results]_vars

\* with an estimate of 0 a pass read two ticks and the size line, and
\* returned success
C28_Witness ==
    /\ pc = "returned"
    /\ pb = NewPb(0)
    /\ outScript = <<TickLine, TickLine, SizeLineA>>
    /\ outRead = 3
    /\ ret.status = "PASS"

--------------------------------------------------------------------------
(* The report of get_diff *)

\* C29: the keys get_diff reports as removed and those it reports as added
\* are disjoint, every reported count is at least 1, the added total minus
\* the removed total is the sum of the counts of 'new' minus the sum of the
\* counts of 'old', and the call leaves both mappings and the selection as
\* they were.
C29_DiffBalancesAndChangesNothing ==
    /\ [](JustDiffed =>
             /\ DOMAIN report.removed \cap DOMAIN report.added = {}
             /\ CountsPositive(report.removed) /\ CountsPositive(report.added)
             /\ report.added_total - report.removed_total =
                    SumValues(wt.new_db) - SumValues(wt.old_db))
    /\ [][CallMade /\ LastCall'.op = "get_diff" => wt' = wt]_vars

\* one key fell from 'old' and another came twice into 'new'
C29_Witness ==
    /\ JustDiffed
    /\ report.removed_total = 1
    /\ report.added_total = 2
    /\ DOMAIN report.removed # {}
    /\ Cardinality(DOMAIN report.added) = 1

--------------------------------------------------------------------------
(* ChoreManager.parse_args: the fingerprint commit, the chores, the finally *)

makeVars == <<pc, outScript, errScript, outRead, errRead, selKeys, ok, results, logs,
              compiler_log, context, pb, ret, childExit, skipClean, cleanCount, passNo>>

InitArgs ==
    /\ InitCommon
    /\ cpc = "pa_start"
    /\ wt = NoTracker

\* lines 347-348, 408-416: `git diff --quiet` tells whether the tree is dirty;
\* if so 'git commit -am fingerprint' and _git_was_dirty = True
PaImprint ==
    /\ cpc = "pa_start"
    /\ \E dirty \in BOOLEAN :
          /\ git_was_dirty' = dirty
          /\ trace' = IF dirty THEN Append(trace, "commit fingerprint") ELSE trace
    /\ cpc' = "pa_try"
    /\ UNCHANGED makeVars
    /\ UNCHANGED <<wt, head, cwResults, report, flashRet>>

\* lines 355-357: the 'warnings' subcommand: a new tracker, then check_warnings
PaWarnings ==
    /\ cpc = "pa_try"
    /\ wt' = NewTracker
    /\ cpc' = "cw_start"
    /\ UNCHANGED makeVars
    /\ UNCHANGED <<head, trace, cwResults, report, flashRet, git_was_dirty>>

\* lines 364-393: chores that run no build
PaOtherChores ==
    /\ cpc = "pa_try"
    /\ cpc' = "pa_chores_done"
    /\ UNCHANGED makeVars
    /\ UNCHANGED callerVars

\* lines 394-395: execute_builds, a pass of _make
PaBuild ==
    /\ cpc = "pa_try"
    /\ MakeStart(FALSE, MultiScripts(MaxMultiLines))
    /\ cpc' = "pa_build"
    /\ UNCHANGED callerVars

\* lines 397-405: the end of the try block is reached (by completion, by the
\* GeneratorExit of the warnings branch, or by an exception of a chore) and
\* the finally block runs _git_imprint_wipe (lines 427-432)
PaFinally ==
    /\ \/ cpc \in {"cw_done", "cw_aborted", "raised", "pa_chores_done"}
       \/ cpc = "pa_build" /\ pc = "returned"
    /\ trace' = IF git_was_dirty THEN Append(trace, "reset HEAD^") ELSE trace
    /\ cpc' = IF cpc = "raised" THEN "pa_propagated" ELSE "pa_done"
    /\ UNCHANGED makeVars
    /\ UNCHANGED <<wt, head, cwResults, report, flashRet, git_was_dirty>>

NextArgs ==
    \/ PaImprint \/ PaWarnings \/ PaOtherChores \/ PaBuild \/ PaFinally
    \/ CwStart \/ CwAbort \/ CwBase \/ CwFinish
    \/ Select \/ ReadEof \/ ReadStdout \/ ReadStderr \/ MakeReturn

SpecArgs == InitArgs /\ [][NextArgs]_vars

Has(tr, op) == \E i \in 1..Len(tr) : tr[i] = op

\* this step runs 'git reset HEAD^'
ResetNow == trace' = Append(trace, "reset HEAD^")

\* this step leaves parse_args
ExitNow == cpc \notin {"pa_done", "pa_propagated"} /\ cpc' \in {"pa_done", "pa_propagated"}

\* C30: 'git reset HEAD^' runs at exit if and only if a fingerprint commit
\* was made at start, it runs at most once on every path through parse_args,
\* and when it runs the checked-out HEAD is the fingerprint commit (the ref
\* the session started on), not the base ref.
C30_FingerprintPairedWithReset ==
    [][/\ ExitNow => (ResetNow <=> Has(trace, "commit fingerprint"))
       /\ ResetNow =>
             /\ ExitNow
             /\ ~Has(trace, "reset HEAD^")
             /\ head = "orig"]_vars

==========================================================================
